---- MODULE Spec2Model ----
(***************************************************************************)
(* The voting_system program of solana-voting: the account state it keeps  *)
(* (VotingAccount, UserAccount) and its instructions (initialize,          *)
(* initializeUser, initializeUserAccount, vote, endVoting), as declared by *)
(* the program's IDL and exercised by its test suite.                      *)
(*                                                                         *)
(* Every instruction executes atomically: a rejected instruction leaves    *)
(* the account store untouched and only its result code is observable.     *)
(*                                                                         *)
(* The browser client (the VotingSystem component) is modelled next to the *)
(* program: its React state, its handlers and what it renders.             *)
(***************************************************************************)
EXTENDS Integers, Sequences, FiniteSets, TLC

VARIABLES
    votingAccounts,  \* address -> VotingAccount, for the addresses created
    userAccounts,    \* address -> UserAccount, for the addresses created
    authority,       \* history: poll address -> wallet that signed initialize
    owner,           \* history: user-account address -> wallet that registered it
    votedAt,         \* history: user-account address -> poll it voted in
    succeeded,       \* history: poll address -> number of successful votes
    last,            \* the last instruction submitted: its arguments, its
                     \* result, and the accounts as they were before it
    client           \* the state of one VotingSystem component (the browser
                     \* client): its React state and the handler in flight

vars == <<votingAccounts, userAccounts, authority, owner, votedAt, succeeded, last, client>>

----------------------------------------------------------------------------
(* Bounds of the model *)

MaxPolls == 1
MaxUserKeys == 1
MaxWallets == 2
MaxCandidates == 2
MaxTally == 2

\* Addresses of voting accounts: freshly generated keypairs.
PollAddr(k) == <<"poll", k>>
PollAddrs == {PollAddr(k) : k \in 1 .. MaxPolls}
Wallets == 1 .. MaxWallets

\* Addresses of user accounts: freshly generated keypairs (initializeUser)
\* and the address derived from seeds "user" + wallet (initializeUserAccount).
KeyAddr(k) == <<"key", k>>
UserPDA(w) == <<"user", w>>
UserAddrs == {KeyAddr(k) : k \in 1 .. MaxUserKeys} \cup {UserPDA(w) : w \in Wallets}

\* Candidate names are strings; a string is a sequence of characters.
Chars == {" ", "A", "B"}
Names == { <<" ">>, <<"A">>, <<"B">> }

RECURSIVE SeqsUpTo(_, _)
SeqsUpTo(S, n) ==
    IF n = 0 THEN { <<>> }
    ELSE LET shorter == SeqsUpTo(S, n - 1)
         IN  shorter \cup { Append(q, x) : q \in {r \in shorter : Len(r) = n - 1}, x \in S }

CandidateLists == SeqsUpTo(Names, MaxCandidates)

\* candidateIndex is a u32; the model draws it from a range that always
\* contains an index past the end of the longest candidate list.
Indices == 0 .. MaxCandidates

----------------------------------------------------------------------------
(* Account data *)

\* The error codes the program declares.
ErrorCodes == {"AlreadyVoted", "InvalidCandidate"}

\* The account types the program declares.
VotingAccount == [candidates : Seq(Seq(Chars)), votes : Seq(Nat), hasEnded : BOOLEAN]
UserAccount == [hasVoted : BOOLEAN]

Zeros(n) == [i \in 1 .. n |-> 0]

\* a voting account created with one counter too few
NewVotingAccountShortVotes(candidates) ==
    [candidates |-> candidates, votes |-> Zeros(Len(candidates) - 1), hasEnded |-> FALSE]

\* a voting account that stores the names in reverse order
NewVotingAccountReversed(candidates) ==
    [candidates |-> [i \in 1 .. Len(candidates) |-> candidates[Len(candidates) + 1 - i]],
     votes |-> Zeros(Len(candidates)), hasEnded |-> FALSE]

NewVotingAccount(candidates) ==
    [candidates |-> candidates, votes |-> Zeros(Len(candidates)), hasEnded |-> FALSE]

NewUserAccount == [hasVoted |-> FALSE]

RECURSIVE SumSeq(_)
SumSeq(s) == IF s = <<>> THEN 0 ELSE Head(s) + SumSeq(Tail(s))

\* String.prototype.trim: leading and trailing blanks removed.
RECURSIVE TrimStart(_)
TrimStart(s) == IF s # <<>> /\ Head(s) = " " THEN TrimStart(Tail(s)) ELSE s

RECURSIVE TrimEnd(_)
TrimEnd(s) ==
    IF s # <<>> /\ s[Len(s)] = " " THEN TrimEnd(SubSeq(s, 1, Len(s) - 1)) ELSE s

Trim(s) == TrimEnd(TrimStart(s))

\* The candidate names a list counts: those not empty once trimmed.
NonEmptyNames(candidates) == SelectSeq(candidates, LAMBDA c : Len(Trim(c)) > 0)

\* Values recorded for the arguments an instruction does not take (0 for
\* the candidate index).
NoAddr == <<>>
NoCandidates == <<>>

\* What is recorded of a submitted instruction: the wallet that signed it,
\* the accounts and arguments it named, its result code, and the account
\* store as it was when the instruction was submitted.
Entry(op, signer, votingAccount, userAccount, candidateIndex, candidates, result) ==
    [op |-> op, signer |-> signer,
     votingAccount |-> votingAccount, userAccount |-> userAccount,
     candidateIndex |-> candidateIndex, candidates |-> candidates,
     result |-> result,
     before |-> [votingAccounts |-> votingAccounts, userAccounts |-> userAccounts]]

----------------------------------------------------------------------------
(* The component's state *)

\* No handler in flight.
NoCall ==
    [op |-> "none", votingAccount |-> NoAddr, candidates |-> NoCandidates,
     candidateIndex |-> 0, votes |-> <<>>, result |-> "Ok"]

\* No winner is shown.
NoWinner == [shown |-> FALSE, name |-> <<>>, count |-> 0]

\* The state a freshly mounted component starts in: no wallet connected
\* (wallet 0), no account loaded, nothing in flight, no handler settled yet.
ClientInit ==
    [wallet |-> 0, votingAccount |-> NoAddr, userAccount |-> NoAddr,
     candidates |-> NoCandidates, votes |-> <<>>,
     hasVoted |-> FALSE, hasEnded |-> FALSE, loading |-> FALSE, isAdmin |-> FALSE,
     pending |-> NoCall, settled |-> [op |-> "none", result |-> "Ok"],
     winner |-> NoWinner]

----------------------------------------------------------------------------
Init ==
    /\ votingAccounts = <<>>
    /\ userAccounts = <<>>
    /\ authority = <<>>
    /\ owner = <<>>
    /\ votedAt = <<>>
    /\ succeeded = [p \in PollAddrs |-> 0]
    /\ last = Entry("none", 0, NoAddr, NoAddr, 0, NoCandidates, "Ok")
    /\ client = ClientInit

\* A rejected instruction changes no account: the whole transaction is
\* discarded and only its error is reported.
Rejected(entry) ==
    /\ last' = entry
    /\ UNCHANGED <<votingAccounts, userAccounts, authority, owner, votedAt, succeeded>>

\* account creation that never finds the address taken
AccountNeverExists(store, addr) == FALSE

\* Creating an account at an address that already holds one is refused.
AccountAlreadyExists(store, addr) == addr \in DOMAIN store

Initialize(votingAccount, user, candidates) ==
    LET entry(result) == Entry("initialize", user, votingAccount, NoAddr, 0,
                               candidates, result)
    IN  IF AccountAlreadyExists(votingAccounts, votingAccount)
        THEN Rejected(entry("AccountAlreadyExists"))
        ELSE /\ votingAccounts' =
                    votingAccounts @@ (votingAccount :> NewVotingAccount(candidates))
             /\ authority' = authority @@ (votingAccount :> user)
             /\ last' = entry("Ok")
             /\ UNCHANGED <<userAccounts, owner, votedAt, succeeded>>

\* The registration both instructions perform, at the address given.
CreateUserAccount(op, userAccount, user) ==
    LET entry(result) == Entry(op, user, NoAddr, userAccount, 0, NoCandidates, result)
    IN  IF AccountAlreadyExists(userAccounts, userAccount)
        THEN Rejected(entry("AccountAlreadyExists"))
        ELSE /\ userAccounts' = userAccounts @@ (userAccount :> NewUserAccount)
             /\ owner' = owner @@ (userAccount :> user)
             /\ last' = entry("Ok")
             /\ UNCHANGED <<votingAccounts, authority, votedAt, succeeded>>

\* initializeUser: the user account is a freshly generated keypair that
\* signs its own creation; `user` pays.
InitializeUser(userAccount, user) ==
    CreateUserAccount("initializeUser", userAccount, user)

\* initializeUserAccount: the user account does not sign, its address is
\* the one derived from the seeds "user" + the signing wallet.
InitializeUserAccount(user) ==
    CreateUserAccount("initializeUserAccount", UserPDA(user), user)

\* An instruction naming an account that was never created is refused.
RecordNotFound == "Unauthorized"

\* vote without the has-voted check
VoteCheckNoReplayGuard(voting, account, candidateIndex) ==
    IF candidateIndex >= Len(voting.candidates) THEN "InvalidCandidate" ELSE "Ok"

\* vote with the bounds check off by one
VoteCheckOffByOne(voting, account, candidateIndex) ==
    IF account.hasVoted THEN "AlreadyVoted"
    ELSE IF candidateIndex > Len(voting.candidates) THEN "InvalidCandidate"
    ELSE "Ok"

\* The checks of vote, in order; "Ok" when the vote is accepted.
VoteCheck(voting, account, candidateIndex) ==
    IF account.hasVoted THEN "AlreadyVoted"
    ELSE IF candidateIndex >= Len(voting.candidates) THEN "InvalidCandidate"
    ELSE "Ok"

\* vote that always counts for the first candidate
CountVoteFirstCandidate(voting, candidateIndex) ==
    [voting EXCEPT !.votes[1] = @ + 1]

\* vote that writes 1 instead of adding 1
CountVoteOverwrites(voting, candidateIndex) ==
    [voting EXCEPT !.votes[candidateIndex + 1] = 1]

\* votes[candidateIndex] += 1 (sequences are 1-based here, indices 0-based)
CountVote(voting, candidateIndex) ==
    [voting EXCEPT !.votes[candidateIndex + 1] = @ + 1]

\* vote that forgets to mark the user account
MarkVotedForgotten(account) == account

MarkVoted(account) == [account EXCEPT !.hasVoted = TRUE]

Vote(votingAccount, userAccount, user, candidateIndex) ==
    LET entry(result) == Entry("vote", user, votingAccount, userAccount, candidateIndex,
                               NoCandidates, result)
    IN  IF \/ votingAccount \notin DOMAIN votingAccounts
           \/ userAccount \notin DOMAIN userAccounts
        THEN Rejected(entry(RecordNotFound))
        ELSE LET code == VoteCheck(votingAccounts[votingAccount],
                                   userAccounts[userAccount], candidateIndex)
             IN  IF code # "Ok"
                 THEN Rejected(entry(code))
                 ELSE /\ votingAccounts' = [votingAccounts EXCEPT ![votingAccount] =
                                                CountVote(@, candidateIndex)]
                      /\ userAccounts' = [userAccounts EXCEPT ![userAccount] = MarkVoted(@)]
                      /\ votedAt' = votedAt @@ (userAccount :> votingAccount)
                      /\ succeeded' = [succeeded EXCEPT ![votingAccount] = @ + 1]
                      /\ last' = entry("Ok")
                      /\ UNCHANGED <<authority, owner>>

\* The outcome of vote(candidateIndex) naming voting account p and user
\* account u, both existing, submitted on the account store `accounts`: the
\* result code and the account store it leaves.
VoteOutcome(accounts, p, u, candidateIndex) ==
    LET code == VoteCheck(accounts.votingAccounts[p], accounts.userAccounts[u],
                          candidateIndex)
    IN  IF code # "Ok"
        THEN [result |-> code, accounts |-> accounts]
        ELSE [result |-> "Ok",
              accounts |->
                [votingAccounts |-> [accounts.votingAccounts EXCEPT ![p] =
                                        CountVote(@, candidateIndex)],
                 userAccounts |-> [accounts.userAccounts EXCEPT ![u] = MarkVoted(@)]]]

\* endVoting that toggles the flag instead of setting it
EndedVotingToggled(voting) == [voting EXCEPT !.hasEnded = ~@]

EndedVoting(voting) == [voting EXCEPT !.hasEnded = TRUE]

\* endVoting names the voting account only; `user` is the wallet that
\* submits (and pays for) the transaction.
EndVoting(votingAccount, user) ==
    LET entry(result) == Entry("endVoting", user, votingAccount, NoAddr, 0,
                               NoCandidates, result)
    IN  IF votingAccount \notin DOMAIN votingAccounts
        THEN Rejected(entry(RecordNotFound))
        ELSE /\ votingAccounts' = [votingAccounts EXCEPT ![votingAccount] = EndedVoting(@)]
             /\ last' = entry("Ok")
             /\ UNCHANGED <<userAccounts, authority, owner, votedAt, succeeded>>

\* The instructions of the program, submitted by any party; the component
\* is not involved.
Next ==
    \/ \E p \in PollAddrs, w \in Wallets, c \in CandidateLists :
          Initialize(p, w, c) /\ UNCHANGED client
    \/ \E k \in 1 .. MaxUserKeys, w \in Wallets :
          InitializeUser(KeyAddr(k), w) /\ UNCHANGED client
    \/ \E w \in Wallets : InitializeUserAccount(w) /\ UNCHANGED client
    \/ \E p \in PollAddrs, u \in UserAddrs, w \in Wallets, i \in Indices :
          Vote(p, u, w, i) /\ UNCHANGED client
    \/ \E p \in PollAddrs, w \in Wallets : EndVoting(p, w) /\ UNCHANGED client

Spec == Init /\ [][Next]_vars

\* Two polls side by side: a second voting account next to the first, both
\* created with the same candidate list. The user account at the generated
\* keypair is registered while the first poll is the only one, so that it is
\* the poll this account is registered for; the derived user accounts are
\* registered at any time.
TwoPollAddrs == {PollAddr(k) : k \in 1 .. MaxPolls + 1}
Ballot == << <<"A">>, <<"B">> >>

InitTwoPolls ==
    /\ votingAccounts = <<>>
    /\ userAccounts = <<>>
    /\ authority = <<>>
    /\ owner = <<>>
    /\ votedAt = <<>>
    /\ succeeded = [p \in TwoPollAddrs |-> 0]
    /\ last = Entry("none", 0, NoAddr, NoAddr, 0, NoCandidates, "Ok")
    /\ client = ClientInit

NextTwoPolls ==
    \/ \E p \in TwoPollAddrs, w \in Wallets :
          Initialize(p, w, Ballot) /\ UNCHANGED client
    \/ \E k \in 1 .. MaxUserKeys, w \in Wallets :
          /\ DOMAIN votingAccounts = {PollAddr(1)}
          /\ InitializeUser(KeyAddr(k), w)
          /\ UNCHANGED client
    \/ \E w \in Wallets : InitializeUserAccount(w) /\ UNCHANGED client
    \/ \E p \in TwoPollAddrs, u \in UserAddrs, w \in Wallets, i \in Indices :
          Vote(p, u, w, i) /\ UNCHANGED client
    \/ \E p \in TwoPollAddrs, w \in Wallets : EndVoting(p, w) /\ UNCHANGED client

SpecTwoPolls == InitTwoPolls /\ [][NextTwoPolls]_vars

----------------------------------------------------------------------------
(* The VotingSystem component. A handler runs in two steps: up to its await *)
(* (the transaction is submitted and executes), and from the await to its  *)
(* end (the local state is updated, `finally` resets loading). Other       *)
(* parties' transactions may execute in between.                           *)

\* The public key of wallet w, and the address derived from the seeds
\* "voting" + wallet w. Generated keys and derived addresses never coincide.
WalletKey(w) == <<"wallet", w>>
VotingPDA(w) == <<"voting", w>>

\* newCandidates.trim() is empty: a single piece, blank.
Blank(raw) == Len(raw) = 1 /\ Trim(raw[1]) = <<>>

\* split(","), trim each piece, drop the empty ones.
ParseCandidates(raw) == NonEmptyNames([i \in 1 .. Len(raw) |-> Trim(raw[i])])

\* The text typed into the candidates field, as the pieces between its
\* commas (the field is never without a piece): the texts that hold no
\* name, the name A, or the names A and B.
CandidateInputs ==
    {raw \in CandidateLists \ { <<>> } :
        ParseCandidates(raw) \in { <<>>, << <<"A">> >>, << <<"A">>, <<"B">> >> }}

Call(op, votingAccount, candidates, candidateIndex, votes, result) ==
    [op |-> op, votingAccount |-> votingAccount, candidates |-> candidates,
     candidateIndex |-> candidateIndex, votes |-> votes, result |-> result]

Idle == client.pending.op = "none"

\* What the component shows, by its render conditions.
PollPanelShown ==
    /\ client.wallet # 0 /\ ~client.loading
    /\ client.votingAccount # NoAddr /\ client.userAccount # NoAddr
InitializeOffered ==
    client.wallet # 0 /\ ~client.loading /\ client.votingAccount = NoAddr
RegisterOffered ==
    /\ client.wallet # 0 /\ ~client.loading
    /\ client.votingAccount # NoAddr /\ client.userAccount = NoAddr
VoteOffered == PollPanelShown /\ ~client.hasVoted /\ ~client.hasEnded
EndVotingOffered == PollPanelShown /\ client.isAdmin /\ ~client.hasEnded

Begin(call) == client' = [client EXCEPT !.loading = TRUE, !.pending = call]

\* The wallet connects (or another wallet does): the effect on
\* wallet.publicKey starts checkVotingAccount.
Connect(w) ==
    /\ Idle
    /\ w # client.wallet
    /\ client' = [client EXCEPT !.wallet = w, !.loading = TRUE,
                                !.pending = Call("checkVotingAccount", NoAddr,
                                                 NoCandidates, 0, <<>>, "Ok")]
    /\ UNCHANGED <<votingAccounts, userAccounts, authority, owner, votedAt, succeeded, last>>

\* The page is loaded again: the component is mounted afresh.
Reload ==
    /\ Idle
    /\ client # ClientInit
    /\ client' = ClientInit
    /\ UNCHANGED <<votingAccounts, userAccounts, authority, owner, votedAt, succeeded, last>>

\* initializeVoting, up to its await: with fewer than two candidates it
\* alerts, resets loading and returns; otherwise it submits initialize for
\* a newly generated voting account.
InitializeVoting(raw) ==
    /\ Idle
    /\ InitializeOffered
    /\ ~Blank(raw)
    /\ LET candidatesList == ParseCandidates(raw)
       IN  IF Len(candidatesList) < 2
           THEN /\ client' = [client EXCEPT !.loading = FALSE,
                                 !.settled = [op |-> "initializeVoting",
                                              result |-> "TooFewCandidates"]]
                /\ UNCHANGED <<votingAccounts, userAccounts, authority, owner,
                               votedAt, succeeded, last>>
           ELSE \E votingKeypair \in PollAddrs \ DOMAIN votingAccounts :
                   /\ Initialize(votingKeypair, client.wallet, candidatesList)
                   /\ Begin(Call("initializeVoting", votingKeypair, candidatesList,
                                 0, <<>>, last'.result))

\* initializeUserAccount, up to its await.
ClientInitializeUserAccount ==
    /\ Idle
    /\ RegisterOffered
    /\ InitializeUserAccount(client.wallet)
    /\ Begin(Call("initializeUserAccount", NoAddr, NoCandidates, 0, <<>>, last'.result))

\* vote(candidateIndex), up to its await; the index is that of one of the
\* candidates shown, and `votes` is captured as shown.
ClientVote(candidateIndex) ==
    /\ Idle
    /\ VoteOffered
    /\ candidateIndex \in 0 .. Len(client.candidates) - 1
    /\ Vote(client.votingAccount, client.userAccount, client.wallet, candidateIndex)
    /\ Begin(Call("vote", client.votingAccount, NoCandidates, candidateIndex,
                  client.votes, last'.result))

\* endVoting, up to its await. The handler checks the wallet and the voting
\* account only; whether its button is shown is EndVotingOffered.
ClientEndVoting ==
    /\ Idle
    /\ PollPanelShown /\ ~client.hasEnded
    /\ EndVoting(client.votingAccount, client.wallet)
    /\ Begin(Call("endVoting", client.votingAccount, NoCandidates, 0, <<>>, last'.result))

\* checkVotingAccount after its fetches: the voting account is looked up at
\* the address derived from "voting" + wallet, the user account at the one
\* derived from "user" + wallet; what is not found is left as it is.
Checked(c) ==
    LET votingAccountPDA == VotingPDA(c.wallet)
        userAccountPDA == UserPDA(c.wallet)
        c1 == IF votingAccountPDA \in DOMAIN votingAccounts
              THEN [c EXCEPT !.votingAccount = votingAccountPDA,
                             !.candidates = votingAccounts[votingAccountPDA].candidates,
                             !.votes = votingAccounts[votingAccountPDA].votes,
                             !.hasEnded = votingAccounts[votingAccountPDA].hasEnded,
                             !.isAdmin = (votingAccountPDA = WalletKey(c.wallet))]
              ELSE c
    IN  IF userAccountPDA \in DOMAIN userAccounts
        THEN [c1 EXCEPT !.userAccount = userAccountPDA,
                        !.hasVoted = userAccounts[userAccountPDA].hasVoted]
        ELSE c1

\* The local updates of a handler whose transaction was confirmed.
Confirmed(c) ==
    LET call == c.pending
    IN  CASE call.op = "initializeVoting" ->
                [c EXCEPT !.votingAccount = call.votingAccount,
                          !.candidates = call.candidates,
                          !.votes = Zeros(Len(call.candidates))]
          [] call.op = "initializeUserAccount" ->
                [c EXCEPT !.userAccount = UserPDA(c.wallet), !.hasVoted = FALSE]
          [] call.op = "vote" ->
                [c EXCEPT !.votes = [call.votes EXCEPT ![call.candidateIndex + 1] = @ + 1],
                          !.hasVoted = TRUE]
          [] call.op = "endVoting" -> [c EXCEPT !.hasEnded = TRUE]

\* a handler without `finally`: loading is reset only after a confirmed
\* transaction
SettleWithoutFinally ==
    /\ ~Idle
    /\ LET c == IF client.pending.op = "checkVotingAccount" THEN Checked(client)
                ELSE IF client.pending.result = "Ok" THEN Confirmed(client)
                ELSE client
       IN  client' = [c EXCEPT !.loading = (client.pending.result # "Ok"),
                               !.pending = NoCall,
                               !.settled = [op |-> client.pending.op,
                                            result |-> client.pending.result]]
    /\ UNCHANGED <<votingAccounts, userAccounts, authority, owner, votedAt, succeeded, last>>

\* A handler from its await to its end: the local updates if the
\* transaction was confirmed, none if it was rejected (catch), and loading
\* reset in either case (finally).
Settle ==
    /\ ~Idle
    /\ LET c == IF client.pending.op = "checkVotingAccount" THEN Checked(client)
                ELSE IF client.pending.result = "Ok" THEN Confirmed(client)
                ELSE client
       IN  client' = [c EXCEPT !.loading = FALSE, !.pending = NoCall,
                               !.settled = [op |-> client.pending.op,
                                            result |-> client.pending.result]]
    /\ UNCHANGED <<votingAccounts, userAccounts, authority, owner, votedAt, succeeded, last>>

\* Transactions of other parties (other wallets, other tabs, scripts) while
\* the component runs.
Others ==
    /\ UNCHANGED client
    /\ \E w \in {MaxWallets} :
          \/ \E k \in 1 .. MaxUserKeys : InitializeUser(KeyAddr(k), w)
          \/ InitializeUserAccount(w)
          \/ \E p \in PollAddrs, u \in UserAddrs, i \in Indices : Vote(p, u, w, i)
          \/ \E p \in PollAddrs : EndVoting(p, w)

NextClient ==
    \/ \E w \in Wallets : Connect(w)
    \/ Reload
    \/ \E raw \in CandidateInputs : InitializeVoting(raw)
    \/ ClientInitializeUserAccount
    \/ \E i \in Indices : ClientVote(i)
    \/ ClientEndVoting
    \/ Settle
    \/ Others

SpecClient == Init /\ [][NextClient]_vars

\* Every handler that has reached its await runs to its end.
SpecClientFair == SpecClient /\ WF_vars(Settle)

----------------------------------------------------------------------------
(* The winner line of the results panel *)

\* Math.max(...votes), for votes not empty.
RECURSIVE MathMax(_)
MathMax(votes) ==
    IF Len(votes) = 1 THEN votes[1]
    ELSE LET rest == MathMax(Tail(votes))
         IN  IF Head(votes) >= rest THEN Head(votes) ELSE rest

\* indexOf that returns the last index holding x
RECURSIVE LastIndexOf(_, _)
LastIndexOf(votes, x) ==
    IF votes = <<>> THEN -1
    ELSE IF votes[Len(votes)] = x THEN Len(votes) - 1
    ELSE LastIndexOf(SubSeq(votes, 1, Len(votes) - 1), x)

\* votes.indexOf(x): the first index (from 0) holding x, -1 if none.
RECURSIVE IndexOf(_, _)
IndexOf(votes, x) ==
    IF votes = <<>> THEN -1
    ELSE IF Head(votes) = x THEN 0
    ELSE LET rest == IndexOf(Tail(votes), x)
         IN  IF rest = -1 THEN -1 ELSE rest + 1

\* The winner line: shown when the poll has ended and votes is not empty.
Winner(c) ==
    IF c.hasEnded /\ Len(c.votes) > 0
    THEN [shown |-> TRUE,
          name |-> c.candidates[IndexOf(c.votes, MathMax(c.votes)) + 1],
          count |-> MathMax(c.votes)]
    ELSE NoWinner

\* The results panel is rendered.
Render ==
    /\ client' = [client EXCEPT !.winner = Winner(client)]
    /\ UNCHANGED <<votingAccounts, userAccounts, authority, owner, votedAt, succeeded, last>>

\* Candidate k of a poll of distinct names: A, AA, AAA, ...
CandidateName(k) == [j \in 1 .. k |-> "A"]

\* Every tally of up to MaxCandidates + 1 counters of up to MaxTally votes.
Tallies == SeqsUpTo(0 .. MaxTally, MaxCandidates + 1)

\* The component holding any such tally, its poll ended or not.
InitWinner ==
    /\ votingAccounts = <<>>
    /\ userAccounts = <<>>
    /\ authority = <<>>
    /\ owner = <<>>
    /\ votedAt = <<>>
    /\ succeeded = [p \in PollAddrs |-> 0]
    /\ last = Entry("none", 0, NoAddr, NoAddr, 0, NoCandidates, "Ok")
    /\ \E votes \in Tallies, hasEnded \in BOOLEAN :
          client = [ClientInit EXCEPT
                       !.wallet = 1,
                       !.votingAccount = PollAddr(1),
                       !.userAccount = UserPDA(1),
                       !.candidates = [k \in 1 .. Len(votes) |-> CandidateName(k)],
                       !.votes = votes,
                       !.hasEnded = hasEnded]

SpecWinner == InitWinner /\ [][Render]_vars

TypeOK ==
    /\ DOMAIN votingAccounts \subseteq PollAddrs
    /\ \A p \in DOMAIN votingAccounts : votingAccounts[p] \in VotingAccount
    /\ DOMAIN userAccounts \subseteq UserAddrs
    /\ \A u \in DOMAIN userAccounts : userAccounts[u] \in UserAccount
    /\ DOMAIN authority = DOMAIN votingAccounts
    /\ DOMAIN owner = DOMAIN userAccounts
    /\ last.result \in {"Ok", "AccountAlreadyExists", RecordNotFound} \cup ErrorCodes

----------------------------------------------------------------------------
(* Properties. `last` holds the instruction just submitted and the accounts *)
(* as they were before it, so a statement about every instruction is an    *)
(* invariant over `last` and the current accounts.                         *)

\* The accounts the last instruction named, before and after it.
PollBefore == last.before.votingAccounts[last.votingAccount]
PollAfter == votingAccounts[last.votingAccount]
UserBefore == last.before.userAccounts[last.userAccount]
UserAfter == userAccounts[last.userAccount]

\* The last instruction found the voting / user account it named.
PollExisted == last.votingAccount \in DOMAIN last.before.votingAccounts
UserExisted == last.userAccount \in DOMAIN last.before.userAccounts

\* The last instruction changed no account.
NothingChanged ==
    /\ votingAccounts = last.before.votingAccounts
    /\ userAccounts = last.before.userAccounts

\* A list of at least two names, none empty once trimmed.
ValidCandidateList(candidates) ==
    Len(candidates) >= 2 /\ NonEmptyNames(candidates) = candidates

\* The last instruction was a vote that found its poll and its user account.
VoteFound == last.op = "vote" /\ PollExisted /\ UserExisted

\* ... and the poll is one of at least two non-empty candidates.
VoteOnPoll == VoteFound /\ ValidCandidateList(PollBefore.candidates)

IndexInRange == last.candidateIndex < Len(PollBefore.candidates)

\* C1: exactly-once voting. On an open poll, a vote with a user account that
\* has not voted (and an index in range) succeeds and marks the account; a
\* vote with a user account that has voted fails with AlreadyVoted, whatever
\* the index, and leaves every tally unchanged; and no instruction takes a
\* user account that has voted back to not voted, so an account moves
\* Registered -> Voted at most once.
ExactlyOnceVoting ==
    /\ (VoteFound /\ ~PollBefore.hasEnded)
       => IF UserBefore.hasVoted
          THEN last.result = "AlreadyVoted" /\ NothingChanged
          ELSE IndexInRange => (last.result = "Ok" /\ UserAfter.hasVoted)
    /\ \A u \in DOMAIN last.before.userAccounts :
          last.before.userAccounts[u].hasVoted
          => (u \in DOMAIN userAccounts /\ userAccounts[u].hasVoted)

\* C1 witness: a vote with an account that had voted in this open poll was
\* just refused.
SecondVoteRefused ==
    /\ VoteOnPoll /\ ~PollBefore.hasEnded
    /\ UserBefore.hasVoted /\ votedAt[last.userAccount] = last.votingAccount
    /\ IndexInRange /\ PollBefore.votes[last.candidateIndex + 1] = 0
    /\ last.result = "AlreadyVoted"

\* C2: for every poll, the sum of its tally equals the number of votes that
\* succeeded on it and the number of user accounts marked hasVoted by a vote
\* on it; an account is marked exactly when its vote was counted.
TallyMatchesVotes ==
    /\ \A p \in DOMAIN votingAccounts :
          /\ SumSeq(votingAccounts[p].votes) = succeeded[p]
          /\ SumSeq(votingAccounts[p].votes) =
                Cardinality({u \in DOMAIN userAccounts :
                                /\ userAccounts[u].hasVoted
                                /\ u \in DOMAIN votedAt
                                /\ votedAt[u] = p})
    /\ {u \in DOMAIN userAccounts : userAccounts[u].hasVoted} = DOMAIN votedAt

\* C2 witness: two votes have been counted on one poll, and a third vote
\* on it was just refused.
TwoVotesCounted ==
    /\ last.op = "vote" /\ last.result # "Ok"
    /\ \E p \in DOMAIN votingAccounts :
          /\ SumSeq(votingAccounts[p].votes) = 2
          /\ Cardinality({u \in DOMAIN userAccounts : userAccounts[u].hasVoted}) = 2

\* C3: tallies are immutable after close. Once a poll (of at least two
\* non-empty candidates) has ended, no instruction changes its tally, and a
\* vote on it by a registered account that has not voted, with an index in
\* range, fails with PollClosed.
TallyImmutableAfterClose ==
    /\ \A p \in DOMAIN last.before.votingAccounts :
          ( /\ last.before.votingAccounts[p].hasEnded
            /\ ValidCandidateList(last.before.votingAccounts[p].candidates) )
          => (p \in DOMAIN votingAccounts
              /\ votingAccounts[p].votes = last.before.votingAccounts[p].votes)
    /\ (VoteOnPoll /\ PollBefore.hasEnded /\ ~UserBefore.hasVoted /\ IndexInRange)
       => last.result = "PollClosed"

\* C4: endVoting on an open poll (of at least two non-empty candidates),
\* submitted by a wallet other than the one that signed the poll's
\* initialize, fails with Unauthorized and leaves hasEnded false.
OnlyAuthorityEndsVoting ==
    ( /\ last.op = "endVoting"
      /\ PollExisted
      /\ ValidCandidateList(PollBefore.candidates)
      /\ ~PollBefore.hasEnded
      /\ last.signer # authority[last.votingAccount] )
    => (last.result = "Unauthorized" /\ ~PollAfter.hasEnded)

\* C5: a vote by a registered account that has not voted, with an index
\* past the end of the candidate list, fails with InvalidCandidate and
\* changes no account: the tally is unchanged and hasVoted stays false.
InvalidCandidateRejected ==
    ( /\ VoteFound
      /\ ~UserBefore.hasVoted
      /\ ~IndexInRange )
    => /\ last.result = "InvalidCandidate"
       /\ NothingChanged
       /\ ~UserAfter.hasVoted

\* C5 witness: a vote with an index just past the end of a poll of two
\* candidates was refused, and the account can still vote.
OutOfRangeVoteRefused ==
    /\ VoteOnPoll
    /\ last.candidateIndex = Len(PollBefore.candidates)
    /\ last.result = "InvalidCandidate"
    /\ ~UserAfter.hasVoted

\* C6: initialize at a fresh address with a list of N >= 2 non-empty names
\* succeeds and creates a voting account holding the names verbatim and in
\* order, N counters all zero, and hasEnded false.
InitializeCreatesPoll ==
    ( /\ last.op = "initialize"
      /\ ~PollExisted
      /\ ValidCandidateList(last.candidates) )
    => /\ last.result = "Ok"
       /\ last.votingAccount \in DOMAIN votingAccounts
       /\ PollAfter.candidates = last.candidates
       /\ Len(PollAfter.votes) = Len(last.candidates)
       /\ \A i \in 1 .. Len(last.candidates) : PollAfter.votes[i] = 0
       /\ PollAfter.hasEnded = FALSE

\* C6 witness: a poll of two different non-empty names was just created.
ValidPollCreated ==
    /\ last.op = "initialize" /\ last.result = "Ok"
    /\ ValidCandidateList(last.candidates)
    /\ last.candidates[1] # last.candidates[2]
    /\ PollAfter.candidates = last.candidates

\* C7: initialize with fewer than two names that are non-empty once
\* trimmed fails with InvalidCandidateList and creates no voting account.
ShortCandidateListRejected ==
    (last.op = "initialize" /\ Len(NonEmptyNames(last.candidates)) < 2)
    => /\ last.result = "InvalidCandidateList"
       /\ votingAccounts = last.before.votingAccounts

\* hasEnded is false at creation, becomes true only by an accepted
\* endVoting, and is never taken back to false.
ClosedNeverReopens ==
    \A p \in DOMAIN votingAccounts :
        IF p \notin DOMAIN last.before.votingAccounts
        THEN ~votingAccounts[p].hasEnded
        ELSE /\ last.before.votingAccounts[p].hasEnded => votingAccounts[p].hasEnded
             /\ (~last.before.votingAccounts[p].hasEnded /\ votingAccounts[p].hasEnded)
                => (last.op = "endVoting" /\ last.result = "Ok" /\ last.votingAccount = p)

\* The last instruction was endVoting on a poll (of at least two non-empty
\* candidates) that had already ended.
EndVotingAgain ==
    /\ last.op = "endVoting"
    /\ PollExisted
    /\ ValidCandidateList(PollBefore.candidates)
    /\ PollBefore.hasEnded

RegistrationClosedWithPoll ==
    ( /\ last.op \in {"initializeUser", "initializeUserAccount"}
      /\ ~UserExisted
      /\ DOMAIN last.before.votingAccounts # {}
      /\ \A p \in DOMAIN last.before.votingAccounts :
            /\ last.before.votingAccounts[p].hasEnded
            /\ ValidCandidateList(last.before.votingAccounts[p].candidates) )
    => (last.result = "PollClosed" /\ userAccounts = last.before.userAccounts)

\* C10: a vote on an open poll (of at least two non-empty candidates) with
\* an index in range, naming a user account that has not voted and signed
\* by a wallet other than the one that registered that account, fails with
\* Unauthorized and changes neither the tally nor the account's hasVoted.
OnlyOwnerVotes ==
    ( /\ VoteOnPoll
      /\ ~PollBefore.hasEnded
      /\ ~UserBefore.hasVoted
      /\ IndexInRange
      /\ last.signer # owner[last.userAccount] )
    => (last.result = "Unauthorized" /\ NothingChanged)

----------------------------------------------------------------------------
\* The last instruction was a registration (by either instruction).
Registration == last.op \in {"initializeUser", "initializeUserAccount"}

\* A poll of at least two non-empty candidates existed, open, when the last
\* instruction was submitted.
OpenPollBefore ==
    \E p \in DOMAIN last.before.votingAccounts :
        /\ ~last.before.votingAccounts[p].hasEnded
        /\ ValidCandidateList(last.before.votingAccounts[p].candidates)

\* A poll of at least two non-empty candidates exists and is open.
OpenPollNow ==
    \E p \in DOMAIN votingAccounts :
        /\ ~votingAccounts[p].hasEnded
        /\ ValidCandidateList(votingAccounts[p].candidates)

\* The wallets that have registered a user account.
RegisteredIdentities == {owner[u] : u \in DOMAIN userAccounts}

\* C11: while an open poll of at least two non-empty candidates exists, a
\* wallet has at most one user account, and once a wallet has registered, a
\* further registration signed by it is refused whatever address it names,
\* and creates no user account.
OneVoterRecordPerIdentity ==
    /\ OpenPollNow
       => \A u1, u2 \in DOMAIN userAccounts : owner[u1] = owner[u2] => u1 = u2
    /\ ( /\ Registration
         /\ OpenPollBefore
         /\ \E u \in DOMAIN last.before.userAccounts : owner[u] = last.signer )
       => (last.result # "Ok" /\ userAccounts = last.before.userAccounts)

\* C12: the sum of the tally of an open poll (of at least two non-empty
\* candidates) never exceeds the number of distinct wallets that have
\* registered a user account.
TallyBoundedByIdentities ==
    \A p \in DOMAIN votingAccounts :
        ( /\ ~votingAccounts[p].hasEnded
          /\ ValidCandidateList(votingAccounts[p].candidates) )
        => SumSeq(votingAccounts[p].votes) <= Cardinality(RegisteredIdentities)

\* C13: a vote that names a user account never created fails with
\* Unauthorized and changes no account; every accepted vote names a poll and
\* a user account that existed; and every accepted registration happens
\* when a poll has been initialized.
VoteNeedsRegistrationNeedsPoll ==
    /\ (last.op = "vote" /\ PollExisted /\ ~UserExisted)
       => (last.result = "Unauthorized" /\ NothingChanged)
    /\ (last.op = "vote" /\ last.result = "Ok") => (PollExisted /\ UserExisted)
    /\ (Registration /\ last.result = "Ok") => DOMAIN last.before.votingAccounts # {}

\* C14: a voting account is created exactly once. initialize at an address
\* that already holds a voting account fails with AccountAlreadyExists and
\* changes no account (candidates, votes and hasEnded stay as they were);
\* a voting account appears only by an accepted initialize at its address,
\* and is never deleted.
PollCreatedOnce ==
    /\ (last.op = "initialize" /\ PollExisted)
       => /\ last.result = "AccountAlreadyExists"
          /\ NothingChanged
          /\ PollAfter = PollBefore
    /\ \A p \in DOMAIN last.before.votingAccounts : p \in DOMAIN votingAccounts
    /\ \A p \in DOMAIN votingAccounts :
          p \notin DOMAIN last.before.votingAccounts
          => (last.op = "initialize" /\ last.result = "Ok" /\ last.votingAccount = p)

\* C14 witness: initialize with another valid list was just refused at the
\* address of a poll that has ended with a vote counted; the poll is still
\* ended and its vote still counted.
ReinitializeRefused ==
    /\ last.op = "initialize" /\ PollExisted
    /\ ValidCandidateList(last.candidates)
    /\ last.candidates # PollBefore.candidates
    /\ PollBefore.hasEnded /\ SumSeq(PollBefore.votes) > 0
    /\ last.result = "AccountAlreadyExists"
    /\ PollAfter.hasEnded /\ SumSeq(PollAfter.votes) > 0

\* C15: a user account is created exactly once and hasVoted goes only from
\* false to true. A registration (by either instruction) at an address that
\* already holds a user account fails with AccountAlreadyExists and leaves
\* hasVoted as it was; a user account appears only by an accepted
\* registration at its address, with hasVoted false; hasVoted becomes true
\* only by an accepted vote with that account, and never becomes false.
VoterCreatedOnce ==
    /\ (Registration /\ UserExisted)
       => /\ last.result = "AccountAlreadyExists"
          /\ NothingChanged
          /\ UserAfter.hasVoted = UserBefore.hasVoted
    /\ \A u \in DOMAIN last.before.userAccounts :
          /\ u \in DOMAIN userAccounts
          /\ last.before.userAccounts[u].hasVoted => userAccounts[u].hasVoted
          /\ (~last.before.userAccounts[u].hasVoted /\ userAccounts[u].hasVoted)
             => (last.op = "vote" /\ last.result = "Ok" /\ last.userAccount = u)
    /\ \A u \in DOMAIN userAccounts :
          u \notin DOMAIN last.before.userAccounts
          => /\ Registration /\ last.result = "Ok" /\ last.userAccount = u
             /\ ~userAccounts[u].hasVoted

\* C15 witness: a registration was just refused at the address of a user
\* account that has voted, and the account is still marked.
ReregistrationRefused ==
    /\ Registration /\ UserExisted
    /\ UserBefore.hasVoted
    /\ last.result = "AccountAlreadyExists"
    /\ UserAfter.hasVoted

\* The six codes the specification names.
NamedCodes ==
    {"InvalidCandidateList", "AccountAlreadyExists", "PollClosed",
     "AlreadyVoted", "InvalidCandidate", "Unauthorized"}

\* The codes a rejected instruction can return: those the program declares,
\* and those of an account that exists already or does not exist.
RejectionCodes == ErrorCodes \cup {"AccountAlreadyExists", RecordNotFound}

TallyShapeCandidatesFixed ==
    \A p \in DOMAIN votingAccounts :
        /\ Len(votingAccounts[p].votes) = Len(votingAccounts[p].candidates)
        /\ \A i \in 1 .. Len(votingAccounts[p].votes) : votingAccounts[p].votes[i] >= 0
        /\ IF p \in DOMAIN last.before.votingAccounts
           THEN votingAccounts[p].candidates = last.before.votingAccounts[p].candidates
           ELSE /\ last.op = "initialize" /\ last.votingAccount = p
                /\ votingAccounts[p].candidates = last.candidates

\* C17 witness: a poll created with two different names, one of them blank,
\* has ended with two votes counted for its second candidate.
BlankNamedPollVotedAndEnded ==
    /\ last.op = "endVoting" /\ last.result = "Ok" /\ PollExisted
    /\ PollAfter.candidates = << <<" ">>, <<"B">> >>
    /\ PollAfter.votes = <<0, 2>>
    /\ PollAfter.hasEnded

\* C18: an accepted vote for candidateIndex i with user account V adds
\* exactly 1 to votes[i] and sets V's hasVoted, and leaves unchanged every
\* other counter, the candidate list, hasEnded, every other voting account
\* and every other user account.
VoteFrame ==
    (last.op = "vote" /\ last.result = "Ok")
    => /\ PollExisted /\ UserExisted /\ IndexInRange
       /\ DOMAIN votingAccounts = DOMAIN last.before.votingAccounts
       /\ DOMAIN userAccounts = DOMAIN last.before.userAccounts
       /\ Len(PollAfter.votes) = Len(PollBefore.votes)
       /\ \A k \in 1 .. Len(PollBefore.votes) :
             PollAfter.votes[k] =
                IF k = last.candidateIndex + 1 THEN PollBefore.votes[k] + 1
                ELSE PollBefore.votes[k]
       /\ PollAfter.candidates = PollBefore.candidates
       /\ PollAfter.hasEnded = PollBefore.hasEnded
       /\ UserAfter.hasVoted
       /\ \A p \in DOMAIN votingAccounts \ {last.votingAccount} :
             votingAccounts[p] = last.before.votingAccounts[p]
       /\ \A u \in DOMAIN userAccounts \ {last.userAccount} :
             userAccounts[u] = last.before.userAccounts[u]

\* C18 witness: a vote for the second candidate was just accepted on a poll
\* that already had a vote for the first, while one user account had voted
\* and another had not.
SecondCandidateVoteCounted ==
    /\ VoteOnPoll /\ last.result = "Ok"
    /\ last.candidateIndex = 1
    /\ PollBefore.votes = <<1, 0>> /\ PollAfter.votes = <<1, 1>>
    /\ \E u, v \in DOMAIN userAccounts \ {last.userAccount} :
          userAccounts[u].hasVoted /\ ~userAccounts[v].hasVoted

\* The user accounts of wallet w whose vote was counted in poll p.
VotesOf(w, p) == {u \in DOMAIN votedAt : votedAt[u] = p /\ owner[u] = w}

\* C19: voter state is per (poll, voter) pair, among polls of two candidates.
\* A wallet that has voted in one poll still gets a vote accepted in another
\* open poll, with a user account that has not voted and an index in range;
\* no wallet has more than one vote counted in a poll; and the user account
\* registered for the first poll (while it was the only poll) never has a
\* vote counted in the second.
VoterStatePerPollAndVoter ==
    /\ ( /\ VoteOnPoll /\ ~PollBefore.hasEnded /\ IndexInRange
         /\ ~UserBefore.hasVoted
         /\ \E u \in DOMAIN votedAt :
               owner[u] = owner[last.userAccount] /\ votedAt[u] # last.votingAccount )
       => last.result = "Ok"
    /\ \A p \in DOMAIN votingAccounts, w \in Wallets : Cardinality(VotesOf(w, p)) <= 1
    /\ \A k \in 1 .. MaxUserKeys :
          KeyAddr(k) \in DOMAIN votedAt => votedAt[KeyAddr(k)] = PollAddr(1)

\* The account store now.
Accounts == [votingAccounts |-> votingAccounts, userAccounts |-> userAccounts]

\* C20: votes with distinct user accounts on the same open poll commute.
\* Every vote submitted has the outcome VoteOutcome gives; and from every
\* reachable state, for every open poll p, any two distinct user accounts a
\* and b that have not voted and any indices i, j in range: vote(i) with a
\* then vote(j) with b are both accepted, as are vote(j) with b then vote(i)
\* with a; both orders leave the same voting and user accounts; a and b are
\* both marked; and the tally of p has grown by exactly 2.
VotesCommute ==
    /\ VoteFound
       => LET o == VoteOutcome(last.before, last.votingAccount, last.userAccount,
                               last.candidateIndex)
          IN  last.result = o.result /\ Accounts = o.accounts
    /\ \A p \in DOMAIN votingAccounts :
          ~votingAccounts[p].hasEnded
          => \A a, b \in DOMAIN userAccounts :
                (a # b /\ ~userAccounts[a].hasVoted /\ ~userAccounts[b].hasVoted)
                => \A i, j \in 0 .. Len(votingAccounts[p].candidates) - 1 :
                      LET a1 == VoteOutcome(Accounts, p, a, i)
                          ab == VoteOutcome(a1.accounts, p, b, j)
                          b1 == VoteOutcome(Accounts, p, b, j)
                          ba == VoteOutcome(b1.accounts, p, a, i)
                      IN  /\ a1.result = "Ok" /\ ab.result = "Ok"
                          /\ b1.result = "Ok" /\ ba.result = "Ok"
                          /\ ab.accounts = ba.accounts
                          /\ ab.accounts.userAccounts[a].hasVoted
                          /\ ab.accounts.userAccounts[b].hasVoted
                          /\ SumSeq(ab.accounts.votingAccounts[p].votes) =
                                SumSeq(votingAccounts[p].votes) + 2

\* C20 witness: on an open poll of two candidates, a vote for the first
\* candidate with one user account was just accepted right after a vote for
\* the second with another, and both are counted.
TwoVotersBothCounted ==
    /\ VoteOnPoll /\ ~PollBefore.hasEnded /\ last.result = "Ok"
    /\ last.candidateIndex = 0
    /\ PollBefore.votes = <<0, 1>> /\ PollAfter.votes = <<1, 1>>
    /\ \E u \in DOMAIN last.before.userAccounts \ {last.userAccount} :
          last.before.userAccounts[u].hasVoted

----------------------------------------------------------------------------
\* C21: once the results panel is rendered, a winner is shown exactly when
\* the poll has ended and votes is not empty; the name shown is that of the
\* lowest-indexed candidate among those with the largest count, and the
\* count shown is that largest count.
WinnerIsFirstArgmax ==
    client.winner = Winner(client)
    => /\ client.winner.shown <=> (client.hasEnded /\ Len(client.votes) > 0)
       /\ client.winner.shown
          => \E i \in 1 .. Len(client.votes) :
                /\ \A j \in 1 .. Len(client.votes) : client.votes[j] <= client.votes[i]
                /\ \A j \in 1 .. i - 1 : client.votes[j] < client.votes[i]
                /\ client.winner.name = client.candidates[i]
                /\ client.winner.count = client.votes[i]

\* C21 witness: the winner shown for an ended poll whose second and third
\* candidates tie ahead of the first is the second candidate.
TieGoesToLowerIndex ==
    /\ client.hasEnded
    /\ client.votes = <<1, 2, 2>>
    /\ client.winner = [shown |-> TRUE, name |-> CandidateName(2), count |-> 2]

\* The local votes and hasEnded equal those of the voting account the
\* component holds, and the local hasVoted that of the user account it holds.
MirrorsLedger ==
    /\ client.votingAccount # NoAddr
       => /\ client.votingAccount \in DOMAIN votingAccounts
          /\ client.votes = votingAccounts[client.votingAccount].votes
          /\ client.hasEnded = votingAccounts[client.votingAccount].hasEnded
    /\ client.userAccount # NoAddr
       => /\ client.userAccount \in DOMAIN userAccounts
          /\ client.hasVoted = userAccounts[client.userAccount].hasVoted

\* A handler whose transaction was confirmed runs from its await to its end.
ConfirmedSettles ==
    /\ client.pending.op \in {"initializeVoting", "initializeUserAccount", "vote", "endVoting"}
    /\ client.pending.result = "Ok"
    /\ client'.pending.op = "none"

\* No voting account on the ledger has ended.
NoPollEnded == \A p \in DOMAIN votingAccounts : ~votingAccounts[p].hasEnded

\* C22: when a handler whose transaction was confirmed has made its local
\* updates, the local votes, hasVoted and hasEnded equal those of the
\* accounts on the ledger, whatever other parties have submitted meanwhile
\* (stated for the case that nobody has ended a poll).
LocalMirrorIsLedgerState ==
    [][(ConfirmedSettles /\ NoPollEnded) => MirrorsLedger']_vars

\* checkVotingAccount runs from its fetches to its end.
CheckSettles ==
    /\ client.pending.op = "checkVotingAccount"
    /\ client'.pending.op = "none"

\* The component holds a voting account created by the connected wallet if
\* that wallet has created one, and the wallet's derived user account if it
\* is registered.
HoldsWalletsAccounts ==
    /\ (\E p \in DOMAIN authority : authority[p] = client.wallet)
       => /\ client.votingAccount \in DOMAIN authority
          /\ authority[client.votingAccount] = client.wallet
    /\ UserPDA(client.wallet) \in DOMAIN userAccounts
       => client.userAccount = UserPDA(client.wallet)

\* C23: one address per record kind. When an account check for a wallet
\* finishes, a voting account that wallet created has been found again,
\* and so has the wallet's registered user account.
AccountsFoundAgain == [][CheckSettles => HoldsWalletsAccounts']_vars

\* The connected wallet created the voting account the component holds.
IsCreator ==
    /\ client.votingAccount \in DOMAIN authority
    /\ authority[client.votingAccount] = client.wallet

\* C24: while the component holds a voting account and no handler is in
\* flight, isAdmin is true exactly when the connected wallet created that
\* account; and in the poll panel of a poll not ended, End Voting is
\* offered exactly to that wallet.
AdminIsCreator ==
    (Idle /\ client.wallet # 0 /\ client.votingAccount # NoAddr)
    => /\ client.isAdmin <=> IsCreator
       /\ (PollPanelShown /\ ~client.hasEnded) => (EndVotingOffered <=> IsCreator)

\* A handler whose transaction was rejected runs from its await to its end.
RejectedSettles ==
    /\ client.pending.op \in {"initializeVoting", "initializeUserAccount", "vote", "endVoting"}
    /\ client.pending.result # "Ok"
    /\ client'.pending.op = "none"

\* C25: whenever loading is true it is eventually false again; it is true
\* only while a handler is in flight; and a handler whose transaction was
\* rejected leaves the local votes, hasVoted, hasEnded, votingAccount and
\* userAccount as they were.
LoadingResetRejectionKeepsState ==
    /\ client.loading ~> ~client.loading
    /\ [](Idle => ~client.loading)
    /\ [][RejectedSettles
          => /\ ~client'.loading
             /\ client'.votes = client.votes
             /\ client'.hasVoted = client.hasVoted
             /\ client'.hasEnded = client.hasEnded
             /\ client'.votingAccount = client.votingAccount
             /\ client'.userAccount = client.userAccount]_vars

\* C25 witness: a vote of the component was rejected with AlreadyVoted and
\* its handler has finished: loading is false and the local hasVoted is
\* still false.
RejectedVoteSettled ==
    /\ client.settled = [op |-> "vote", result |-> "AlreadyVoted"]
    /\ Idle /\ ~client.loading
    /\ ~client.hasVoted
====
